---- MODULE Spec2Model ----
(***************************************************************************)
(* State-machine model of spotifydownload.py: main() authenticates with    *)
(* the catalog, lists the playlists, reads a selection and, for every      *)
(* selected playlist, lists its tracks, searches each one on the external  *)
(* index and downloads the top hit to <download_dir>/<artist>/<title>.mp3. *)
(***************************************************************************)
EXTENDS Integers, Sequences, FiniteSets, TLC

(* ------------------------------ bounds --------------------------------- *)
\* most playlists the catalog serves to get_playlists
MaxPlaylists == 2
\* most tracks the catalog serves for one playlist
MaxTracks == 2
\* most comma-separated tokens typed at the selection prompt
MaxSel == 2
\* longest artist string drawn for the path computation
MaxArtistLen == 2
\* longest title string drawn for the path computation
MaxTitleLen == 1
\* workers running download_track at the same time
NumWorkers == 3

\* pages the catalog serves for one listing, and items on one page
MaxPages == 2
MaxPageItems == 2

(* --------------------------- strings and paths ------------------------- *)
\* A string is a sequence of one-character strings.
\* The character class of the regular expression r'[\\/*?:"<>|]'.
StripChars_NoPipe == {"\\", "/", "*", "?", ":", "\"", "<", ">"}
StripChars == {"\\", "/", "*", "?", ":", "\"", "<", ">", "|"}

\* Characters the drawn strings are made of: the nine stripped ones, a
\* letter and the dot (which the expression keeps).
Alphabet == {"\\", "/", "*", "?", ":", "\"", "<", ">", "|", "a", "."}

RECURSIVE re_sub(_)
\* re.sub(r'[\\/*?:"<>|]', "", s): every character of the class is deleted.
re_sub(s) ==
    IF s = <<>> THEN <<>>
    ELSE (IF Head(s) \in StripChars THEN <<>> ELSE <<Head(s)>>) \o re_sub(Tail(s))

\* A path is the sequence of its components below the filesystem root.
\* download_dir is one directory below the root.
download_dir == << <<"d">> >>

RECURSIVE SplitSep(_, _)
\* The components of a relative name: the name cut at every "/" (cur is
\* the component being read).
SplitSep(s, cur) ==
    IF s = <<>> THEN <<cur>>
    ELSE IF Head(s) = "/" THEN <<cur>> \o SplitSep(Tail(s), <<>>)
    ELSE SplitSep(Tail(s), Append(cur, Head(s)))

\* os.path.join(base, name) on POSIX: a name starting with "/" replaces
\* base, otherwise its components are appended to base.
os_path_join(base, name) ==
    IF name # <<>> /\ Head(name) = "/" THEN SplitSep(Tail(name), <<>>)
    ELSE base \o SplitSep(name, <<>>)

RECURSIVE Resolve(_, _)
\* The directory entry a path names: "" and "." stay in place, ".." moves
\* to the parent (the root is its own parent), anything else descends.
Resolve(p, acc) ==
    IF p = <<>> THEN acc
    ELSE IF Head(p) \in {<<>>, <<".">>} THEN Resolve(Tail(p), acc)
    ELSE IF Head(p) = <<".", ".">>
         THEN Resolve(Tail(p), IF acc = <<>> THEN <<>> ELSE SubSeq(acc, 1, Len(acc) - 1))
    ELSE Resolve(Tail(p), Append(acc, Head(p)))

\* The file yt-dlp leaves for the template "<safe_title>.%(ext)s" after the
\* FFmpegExtractAudio postprocessor with preferredcodec mp3.
OutputName(safe_title) == safe_title \o <<".", "mp3">>

(* ------------------------------ exceptions ----------------------------- *)
\* KeyboardInterrupt derives from BaseException, every other kind from
\* Exception; JSON decoding errors of the HTTP layer derive from ValueError.
IsValueError(e) == e \in {"ValueError"}
IsKeyboardInterrupt(e) == e = "KeyboardInterrupt"

\* main's handlers: KeyboardInterrupt falls through to return 0, any
\* Exception returns 1.
main_except(e) == IF IsKeyboardInterrupt(e) THEN 0 ELSE 1

\* An exception raised inside the try block of download_saved_playlists:
\* ValueError and KeyboardInterrupt are handled there and the method
\* returns normally (main returns 0); anything else reaches main.
try_except(e) ==
    IF IsValueError(e) \/ IsKeyboardInterrupt(e) THEN 0 ELSE main_except(e)

(* ------------------------------- inputs -------------------------------- *)
\* item['track'] is null for a playlist entry the catalog no longer has.
NullTrack == [artist |-> <<"null">>, title |-> <<"null">>]
\* The playlist items the catalog may serve: two titles that differ only
\* in a stripped character, an artist made of dots, and a null track.
TrackRecords ==
    { [artist |-> <<"a">>, title |-> <<"t">>],
      [artist |-> <<"a">>, title |-> <<"t", "?">>],
      [artist |-> <<".", ".">>, title |-> <<"t">>],
      NullTrack }

RECURSIVE SeqsUpTo(_, _)
\* All sequences over S of length at most n.
SeqsUpTo(S, n) ==
    IF n = 0 THEN { <<>> }
    ELSE LET shorter == SeqsUpTo(S, n - 1)
         IN shorter \cup { Append(q, x) : q \in shorter, x \in S }

\* A token typed at the prompt: text int() reads as the number val, or
\* (numeric FALSE) text int() rejects.
NotANumber == [numeric |-> FALSE, val |-> 0]
Tokens == {NotANumber} \cup [numeric : {TRUE}, val : 0 .. MaxPlaylists + 1]
Selections == SeqsUpTo(Tokens, MaxSel) \ { <<>> }

\* What ytmusic.search, the catalog and the prompt may raise.  A listing
\* fails with SpotifyException (an expired token), with ConnectionError
\* (the network is down for a moment) or is interrupted.
SearchErrors == {"YTMusicError", "ValueError", "KeyboardInterrupt"}
ListingErrors == {"SpotifyException", "ConnectionError", "KeyboardInterrupt"}

(* ------------------------------- workers ------------------------------- *)
\* Workers running the directory step of download_track side by side, and
\* the artists of their tracks.
Workers == 1 .. NumWorkers
WorkerArtists == { <<"a">>, <<"b">> }

(* -------------------------------- state -------------------------------- *)
VARIABLES
    pc,                 \* where main is: "authenticate", "get_playlists",
                        \* "select", "for_idx", "for_track", "download", "done"
    authorization_code, \* the module global set by callback ("None" = None)
    sp,                 \* self.sp is set
    playlists,          \* the list get_playlists returned
    selected_indices,   \* the parsed selection (0-based, as in the code)
    sel_pos,            \* position of the for loop in selected_indices (1-based)
    tracks,             \* process_playlist: the listed items
    i,                  \* process_playlist: index of the current item (0-based)
    completed,          \* the progress task's completed count
    outcomes,           \* per advance of the progress task: item index and status
    video_id,           \* what search_youtube_music returned ("None" = None)
    safe_artist,        \* download_track: the sanitized artist
    safe_title,         \* download_track: the sanitized title
    artist_dir,         \* download_track: os.path.join(download_dir, safe_artist)
    outtmpl,            \* download_track: the output path handed to yt-dlp
    dirs,               \* directories that exist
    files,              \* output files written by a completed download
    exit_status,        \* main's return value, once pc = "done"
    raised,             \* the exception that ended the run, and where it was raised
    written,            \* process_playlist: output files written for its items so far
    wpc,                \* per worker: "idle", "checked", "done", "failed"
    wartist,            \* per worker: the artist it is creating the directory of
    wsaw,               \* per worker: what os.path.exists answered
    callback_delivered, \* the Flask route has run at least once
    processed,          \* playlists announced by "Processing playlist", in order
    invalid_reported,   \* numbers printed by "Invalid playlist number", in order
    catalog_pages,      \* the pages the catalog serves for one listing
    page_no,            \* the page `results` holds (0: no request made yet)
    listed,             \* the list a listing method has built so far
    ppc,                \* a listing method called on its own: "call", "loop",
                        \* "returned", "raised"
    pfun                \* which listing method that is

vars == <<pc, authorization_code, sp, playlists, selected_indices, sel_pos,
          tracks, i, completed, outcomes, video_id, safe_artist, safe_title,
          artist_dir, outtmpl, dirs, files, exit_status, raised, written,
          wpc, wartist, wsaw, callback_delivered, processed, invalid_reported,
          catalog_pages, page_no, listed, ppc, pfun>>

workerVars == <<wpc, wartist, wsaw>>
authVars == <<authorization_code, sp, callback_delivered>>
\* what download_saved_playlists and process_playlist have printed
logVars == <<processed, invalid_reported>>
catalogVars == <<playlists, selected_indices, sel_pos, logVars>>
pageVars == <<catalog_pages, page_no, listed, ppc, pfun>>
\* state of the steps that are modelled on their own
sideVars == <<workerVars, pageVars>>
\* the locals of process_playlist and download_track and the progress task
pathVars == <<safe_artist, safe_title, artist_dir, outtmpl>>
frameVars == <<tracks, i, completed, outcomes, video_id, written, pathVars>>
fsVars == <<dirs, files>>
exitVars == <<exit_status, raised>>

NoException == [exc |-> "none", at |-> "none"]

\* The state after SpotifyYouTubeDownloader.__init__: no client, the
\* download directory exists.
Init ==
    /\ pc = "authenticate"
    /\ authorization_code = "None"
    /\ sp = FALSE
    /\ playlists = <<>>
    /\ selected_indices = <<>>
    /\ sel_pos = 1
    /\ tracks = <<>>
    /\ i = 0
    /\ completed = 0
    /\ outcomes = <<>>
    /\ video_id = "None"
    /\ safe_artist = <<>>
    /\ safe_title = <<>>
    /\ artist_dir = <<>>
    /\ outtmpl = <<>>
    /\ dirs = { <<>>, download_dir }
    /\ files = {}
    /\ exit_status = 0
    /\ raised = NoException
    /\ written = {}
    /\ wpc = [w \in Workers |-> "idle"]
    /\ wartist = [w \in Workers |-> <<>>]
    /\ wsaw = [w \in Workers |-> FALSE]
    /\ callback_delivered = FALSE
    /\ processed = <<>>
    /\ invalid_reported = <<>>
    /\ catalog_pages = <<>>
    /\ page_no = 0
    /\ listed = <<>>
    /\ ppc = "returned"
    /\ pfun = "none"

(* ------------------------- how the run can end ------------------------- *)
\* main returns st: the frames of process_playlist and download_track and
\* the progress task are gone.
Return(st) ==
    /\ pc' = "done"
    /\ exit_status' = st
    /\ tracks' = <<>>
    /\ i' = 0
    /\ completed' = 0
    /\ outcomes' = <<>>
    /\ video_id' = "None"
    /\ written' = {}
    /\ safe_artist' = <<>>
    /\ safe_title' = <<>>
    /\ artist_dir' = <<>>
    /\ outtmpl' = <<>>

\* e raised at `at` outside the try block of download_saved_playlists.
RaiseInMain(e, at) ==
    /\ raised' = [exc |-> e, at |-> at]
    /\ Return(main_except(e))

\* e raised at `at` inside the try block of download_saved_playlists.
RaiseInTry(e, at) ==
    /\ raised' = [exc |-> e, at |-> at]
    /\ Return(try_except(e))

(* ---------------------------- authentication --------------------------- *)
\* The Flask route: authorization_code = request.args.get('code'), None
\* when the redirect carries no code.  The redirect answers the
\* authorization request, so it arrives while authenticate_spotify waits;
\* nothing reads authorization_code after the wait loop.
callback ==
    /\ pc = "authenticate"
    /\ \E code \in {"None", "", "code"} : authorization_code' = code
    /\ callback_delivered' = TRUE
    /\ UNCHANGED <<pc, sp, catalogVars, frameVars, fsVars, exitVars, sideVars>>

\* authenticate_spotify leaves its wait loop once authorization_code is
\* not None; the token exchange succeeds (the code is one the service
\* issued, not the empty string of "?code=") and self.sp is set.
authenticate_spotify ==
    /\ pc = "authenticate"
    /\ authorization_code = "code"
    /\ sp' = TRUE
    /\ pc' = "get_playlists"
    /\ UNCHANGED <<authorization_code, callback_delivered, catalogVars, frameVars,
                   fsVars, exitVars, sideVars>>

\* ... or get_access_token raises.
authenticate_spotify_raises ==
    /\ pc = "authenticate"
    /\ authorization_code # "None"
    /\ RaiseInMain("SpotifyOauthError", "authenticate")
    /\ UNCHANGED <<authVars, catalogVars, fsVars, sideVars>>

(* ------------------------ download_saved_playlists --------------------- *)
\* get_playlists: raises when self.sp is unset, else returns the items of
\* the catalog's answer; an empty list ends download_saved_playlists.
get_playlists ==
    /\ pc = "get_playlists"
    /\ IF ~sp
       THEN /\ RaiseInMain("Exception", "get_playlists")
            /\ UNCHANGED playlists
       ELSE \E n \in 0 .. MaxPlaylists :
              /\ playlists' = [k \in 1 .. n |-> k]
              /\ IF n = 0
                 THEN Return(0) /\ UNCHANGED raised
                 ELSE pc' = "select" /\ UNCHANGED <<frameVars, exitVars>>
    /\ UNCHANGED <<authVars, selected_indices, sel_pos, logVars, fsVars, sideVars>>

\* The catalog request of get_playlists fails.
get_playlists_raises ==
    /\ pc = "get_playlists"
    /\ sp
    /\ RaiseInMain("SpotifyException", "get_playlists")
    /\ UNCHANGED <<authVars, catalogVars, fsVars, sideVars>>

\* selection.lower() == 'all': range(len(playlists)).
input_all ==
    /\ pc = "select"
    /\ selected_indices' = [k \in 1 .. Len(playlists) |-> k - 1]
    /\ sel_pos' = 1
    /\ pc' = "for_idx"
    /\ UNCHANGED <<authVars, playlists, logVars, frameVars, fsVars, exitVars,
                   sideVars>>

\* [int(idx.strip()) - 1 for idx in selection.split(',')]: the whole list
\* is built before the loop starts; one bad token raises ValueError.
input_numbers ==
    /\ pc = "select"
    /\ \E toks \in Selections :
         IF \E k \in 1 .. Len(toks) : ~toks[k].numeric
         THEN /\ RaiseInTry("ValueError", "input")
              /\ UNCHANGED <<selected_indices, sel_pos>>
         ELSE /\ selected_indices' = [k \in 1 .. Len(toks) |-> toks[k].val - 1]
              /\ sel_pos' = 1
              /\ pc' = "for_idx"
              /\ UNCHANGED <<frameVars, exitVars>>
    /\ UNCHANGED <<authVars, playlists, logVars, fsVars, sideVars>>

\* Ctrl-C at the prompt.
input_interrupted ==
    /\ pc = "select"
    /\ RaiseInTry("KeyboardInterrupt", "input")
    /\ UNCHANGED <<authVars, catalogVars, fsVars, sideVars>>

\* The for loop over selected_indices is exhausted: the method and main
\* return.
selection_done ==
    /\ pc = "for_idx"
    /\ sel_pos > Len(selected_indices)
    /\ Return(0)
    /\ UNCHANGED <<authVars, catalogVars, fsVars, raised, sideVars>>

\* The current idx of the loop, and whether 0 <= idx < len(playlists).
CurIdx == selected_indices[sel_pos]
ValidIdx(idx) == 0 <= idx /\ idx < Len(playlists)
AtPlaylist == pc = "for_idx" /\ sel_pos <= Len(selected_indices)

\* A changed loop: an index out of range is reported and ends the loop.
invalid_playlist_number_Break ==
    /\ AtPlaylist
    /\ ~ValidIdx(CurIdx)
    /\ sel_pos' = Len(selected_indices) + 1
    /\ invalid_reported' = Append(invalid_reported, CurIdx + 1)
    /\ UNCHANGED <<pc, authVars, playlists, selected_indices, processed, frameVars,
                   fsVars, exitVars, sideVars>>

\* An index out of range is reported and the loop goes on.
invalid_playlist_number ==
    /\ AtPlaylist
    /\ ~ValidIdx(CurIdx)
    /\ sel_pos' = sel_pos + 1
    /\ invalid_reported' = Append(invalid_reported, CurIdx + 1)
    /\ UNCHANGED <<pc, authVars, playlists, selected_indices, processed, frameVars,
                   fsVars, exitVars, sideVars>>

(* ---------------------------- process_playlist ------------------------- *)
\* tracks = self.get_playlist_tracks(playlist_id) answers with the items;
\* the progress task starts at 0 of len(tracks).
get_playlist_tracks ==
    /\ AtPlaylist
    /\ ValidIdx(CurIdx)
    /\ IF ~sp
       THEN RaiseInTry("Exception", "listing") /\ UNCHANGED processed
       ELSE /\ processed' = Append(processed, playlists[CurIdx + 1])
            /\ \E ts \in SeqsUpTo(TrackRecords, MaxTracks) : tracks' = ts
            /\ i' = 0
            /\ completed' = 0
            /\ outcomes' = <<>>
            /\ written' = {}
            /\ pc' = "for_track"
            /\ UNCHANGED <<video_id, pathVars, exitVars>>
    /\ UNCHANGED <<authVars, playlists, selected_indices, sel_pos, invalid_reported,
                   fsVars, sideVars>>

\* A changed caller: the failed listing is reported and the loop goes on
\* with the next selected playlist.
get_playlist_tracks_raises_Continue ==
    /\ AtPlaylist
    /\ ValidIdx(CurIdx)
    /\ sp
    /\ \E e \in ListingErrors : raised' = [exc |-> e, at |-> "listing"]
    /\ sel_pos' = sel_pos + 1
    /\ UNCHANGED <<pc, authVars, playlists, selected_indices, logVars, frameVars,
                   fsVars, exit_status, sideVars>>

\* The listing request fails (an expired token answers 401, raised as
\* SpotifyException) or is interrupted: nothing in get_playlist_tracks or
\* in process_playlist catches it.
get_playlist_tracks_raises ==
    /\ AtPlaylist
    /\ ValidIdx(CurIdx)
    /\ sp
    /\ \E e \in ListingErrors : RaiseInTry(e, "listing")
    /\ UNCHANGED <<authVars, catalogVars, fsVars, sideVars>>

\* The item the loop is at.
CurTrack == tracks[i + 1]
AtTrack == pc = "for_track" /\ i < Len(tracks)

\* A changed progress task: it advances by two.
Advance_Double(status) ==
    /\ completed' = completed + 2
    /\ outcomes' = Append(outcomes, [index |-> i, status |-> status])
    /\ i' = i + 1
    /\ pc' = "for_track"
    /\ UNCHANGED tracks

\* progress.update(task, advance=1) for the current item, and on to the
\* next iteration.
Advance(status) ==
    /\ completed' = completed + 1
    /\ outcomes' = Append(outcomes, [index |-> i, status |-> status])
    /\ i' = i + 1
    /\ pc' = "for_track"
    /\ UNCHANGED tracks

\* item['track'] is None: track['artists'] raises TypeError.
track_record_raises ==
    /\ AtTrack
    /\ CurTrack = NullTrack
    /\ RaiseInTry("TypeError", "record")
    /\ UNCHANGED <<authVars, catalogVars, fsVars, sideVars>>

\* search_youtube_music: self.ytmusic.search raises; the method has no
\* handler and neither has process_playlist.
search_youtube_music_raises ==
    /\ AtTrack
    /\ CurTrack # NullTrack
    /\ \E e \in SearchErrors : RaiseInTry(e, "search")
    /\ UNCHANGED <<authVars, catalogVars, fsVars, sideVars>>

\* A changed loop body: the item without a match is skipped without
\* advancing the task.
track_not_found_NoAdvance ==
    /\ pc = "for_track" /\ i < Len(tracks)
    /\ tracks[i + 1] # NullTrack
    /\ video_id' = "None"
    /\ i' = i + 1
    /\ UNCHANGED <<pc, authVars, catalogVars, tracks, completed, outcomes, written,
                   pathVars, fsVars, exitVars, sideVars>>

\* A changed loop body: the item without a match falls through to
\* download_track.
track_not_found_Fallthrough ==
    /\ AtTrack
    /\ CurTrack # NullTrack
    /\ video_id' = "None"
    /\ pc' = "download"
    /\ UNCHANGED <<authVars, catalogVars, tracks, i, completed, outcomes, written,
                   pathVars, fsVars, exitVars, sideVars>>

\* search_youtube_music returns None (no results); the item is reported,
\* the task advances and the loop continues.
track_not_found ==
    /\ AtTrack
    /\ CurTrack # NullTrack
    /\ video_id' = "None"
    /\ Advance("NotFound")
    /\ UNCHANGED <<authVars, catalogVars, written, pathVars, fsVars,
                   exitVars, sideVars>>

\* search_youtube_music returns the videoId of the first result.
track_found ==
    /\ AtTrack
    /\ CurTrack # NullTrack
    /\ video_id' = "vid"
    /\ pc' = "download"
    /\ UNCHANGED <<authVars, catalogVars, tracks, i, completed, outcomes, written,
                   pathVars, fsVars, exitVars, sideVars>>

\* The for loop over tracks is exhausted: process_playlist returns and the
\* loop of download_saved_playlists moves on.
process_playlist_returns ==
    /\ pc = "for_track"
    /\ i = Len(tracks)
    /\ sel_pos' = sel_pos + 1
    /\ pc' = "for_idx"
    /\ tracks' = <<>>
    /\ i' = 0
    /\ completed' = 0
    /\ outcomes' = <<>>
    /\ video_id' = "None"
    /\ written' = {}
    /\ safe_artist' = <<>>
    /\ safe_title' = <<>>
    /\ artist_dir' = <<>>
    /\ outtmpl' = <<>>
    /\ UNCHANGED <<authVars, playlists, selected_indices, logVars, fsVars,
                   exitVars, sideVars>>

(* ------------------------------ download_track ------------------------- *)
\* artist_dir and the output template of download_track for a track.
ArtistDir(track) == os_path_join(download_dir, re_sub(track.artist))
OutTmpl(track) == ArtistDir(track) \o <<OutputName(re_sub(track.title))>>
\* The directory and the file these name.
DestDir(track) == Resolve(ArtistDir(track), <<>>)
DestFile(track) == Resolve(OutTmpl(track), <<>>)

\* Lines 180-209 of download_track: the paths are computed and
\* "if not os.path.exists(artist_dir): os.makedirs(artist_dir)" has run.
PlanPath(track) ==
    /\ safe_title' = re_sub(track.title)
    /\ safe_artist' = re_sub(track.artist)
    /\ artist_dir' = ArtistDir(track)
    /\ outtmpl' = OutTmpl(track)
    /\ dirs' = dirs \cup {DestDir(track)}

\* os.makedirs raises OSError (before the try block of download_track).
makedirs_raises ==
    /\ pc = "download"
    /\ DestDir(CurTrack) \notin dirs
    /\ RaiseInTry("OSError", "makedirs")
    /\ UNCHANGED <<authVars, catalogVars, fsVars, sideVars>>

\* A changed download: every file gets a name of its own.
download_track_ok_Unique ==
    /\ pc = "download"
    /\ PlanPath(CurTrack)
    /\ files' = files \cup {Append(DestFile(CurTrack), <<i>>)}
    /\ written' = written \cup {Append(DestFile(CurTrack), <<i>>)}
    /\ Advance("Success")
    /\ UNCHANGED <<authVars, catalogVars, video_id, exitVars, sideVars>>

\* ydl.download succeeds: the file is written and True is returned.
download_track_ok ==
    /\ pc = "download"
    /\ PlanPath(CurTrack)
    /\ files' = files \cup {DestFile(CurTrack)}
    /\ written' = written \cup {DestFile(CurTrack)}
    /\ Advance("Success")
    /\ UNCHANGED <<authVars, catalogVars, video_id, exitVars, sideVars>>

\* A changed handler: download_track lets the error through.
download_track_fails_Reraise ==
    /\ pc = "download"
    /\ dirs' = dirs \cup {DestDir(CurTrack)}
    /\ RaiseInTry("DownloadError", "download")
    /\ UNCHANGED <<authVars, catalogVars, files, sideVars>>

\* ydl.download raises an Exception: it is printed and False is returned;
\* process_playlist advances the task all the same.
download_track_fails ==
    /\ pc = "download"
    /\ PlanPath(CurTrack)
    /\ Advance("Failed")
    /\ UNCHANGED <<authVars, catalogVars, video_id, written, files, exitVars,
                   sideVars>>

\* A changed handler (a bare except): the interrupt is treated as a failed
\* download and the loop goes on.
download_track_interrupted_Swallowed ==
    /\ pc = "download"
    /\ PlanPath(CurTrack)
    /\ raised' = [exc |-> "KeyboardInterrupt", at |-> "download"]
    /\ Advance("Failed")
    /\ UNCHANGED <<authVars, catalogVars, video_id, written, files, exit_status,
                   sideVars>>

\* Ctrl-C during ydl.download: KeyboardInterrupt is no Exception, so the
\* handler of download_track does not catch it.
download_track_interrupted ==
    /\ pc = "download"
    /\ dirs' = dirs \cup {DestDir(CurTrack)}
    /\ RaiseInTry("KeyboardInterrupt", "download")
    /\ UNCHANGED <<authVars, catalogVars, files, sideVars>>

(* ---------------------------- specification ---------------------------- *)
Next ==
    \/ callback
    \/ authenticate_spotify
    \/ authenticate_spotify_raises
    \/ get_playlists
    \/ get_playlists_raises
    \/ input_all
    \/ input_numbers
    \/ input_interrupted
    \/ selection_done
    \/ invalid_playlist_number
    \/ get_playlist_tracks
    \/ get_playlist_tracks_raises
    \/ track_record_raises
    \/ search_youtube_music_raises
    \/ track_not_found
    \/ track_found
    \/ process_playlist_returns
    \/ makedirs_raises
    \/ download_track_ok
    \/ download_track_fails
    \/ download_track_interrupted

Spec == Init /\ [][Next]_vars

\* The wait loop of authenticate_spotify polls once a second: once
\* authorization_code is not None the method goes on.  Nothing obliges
\* the browser to send a redirect, or a second one.
SpecAuth == Init /\ [][Next]_vars /\ WF_vars(authenticate_spotify \/ authenticate_spotify_raises)

(* ------------------ the path computation on any strings ---------------- *)
\* process_playlist is about to call download_track for the only item of
\* a playlist, whose artist and title are any strings over Alphabet.
InitPath ==
    /\ pc = "download"
    /\ authorization_code = "code"
    /\ sp = TRUE
    /\ playlists = <<1>>
    /\ selected_indices = <<0>>
    /\ sel_pos = 1
    /\ \E a \in SeqsUpTo(Alphabet, MaxArtistLen), t \in SeqsUpTo(Alphabet, MaxTitleLen) :
         tracks = << [artist |-> a, title |-> t] >>
    /\ i = 0
    /\ completed = 0
    /\ outcomes = <<>>
    /\ video_id = "vid"
    /\ safe_artist = <<>>
    /\ safe_title = <<>>
    /\ artist_dir = <<>>
    /\ outtmpl = <<>>
    /\ dirs = { <<>>, download_dir }
    /\ files = {}
    /\ exit_status = 0
    /\ raised = NoException
    /\ written = {}
    /\ wpc = [w \in Workers |-> "idle"]
    /\ wartist = [w \in Workers |-> <<>>]
    /\ wsaw = [w \in Workers |-> FALSE]
    /\ callback_delivered = TRUE
    /\ processed = <<1>>
    /\ invalid_reported = <<>>
    /\ catalog_pages = <<>>
    /\ page_no = 0
    /\ listed = <<>>
    /\ ppc = "returned"
    /\ pfun = "none"

NextPath ==
    \/ makedirs_raises
    \/ download_track_ok
    \/ download_track_fails
    \/ download_track_interrupted

SpecPath == InitPath /\ [][NextPath]_vars

(* ------------- download_track's directory step, run by workers --------- *)
mainVars == <<pc, authVars, catalogVars, frameVars, files, exitVars, pageVars>>

\* The directory a worker's artist_dir names.
WorkerDir(w) == Resolve(os_path_join(download_dir, re_sub(wartist[w])), <<>>)

\* Every worker holds a found track of some artist and is about to run
\* lines 189-191.
InitWorkers ==
    /\ pc = "download"
    /\ authorization_code = "code"
    /\ sp = TRUE
    /\ playlists = <<1>>
    /\ selected_indices = <<0>>
    /\ sel_pos = 1
    /\ tracks = <<>>
    /\ i = 0
    /\ completed = 0
    /\ outcomes = <<>>
    /\ video_id = "vid"
    /\ safe_artist = <<>>
    /\ safe_title = <<>>
    /\ artist_dir = <<>>
    /\ outtmpl = <<>>
    /\ dirs = { <<>>, download_dir }
    /\ files = {}
    /\ exit_status = 0
    /\ raised = NoException
    /\ written = {}
    /\ wpc = [w \in Workers |-> "idle"]
    /\ wartist \in [Workers -> WorkerArtists]
    /\ wsaw = [w \in Workers |-> FALSE]
    /\ callback_delivered = TRUE
    /\ processed = <<>>
    /\ invalid_reported = <<>>
    /\ catalog_pages = <<>>
    /\ page_no = 0
    /\ listed = <<>>
    /\ ppc = "returned"
    /\ pfun = "none"

\* if not os.path.exists(artist_dir): the answer is taken now
worker_exists(w) ==
    /\ wpc[w] = "idle"
    /\ wsaw' = [wsaw EXCEPT ![w] = WorkerDir(w) \in dirs]
    /\ wpc' = [wpc EXCEPT ![w] = "checked"]
    /\ UNCHANGED <<mainVars, dirs, wartist>>

\* the directory was seen: os.makedirs is skipped
worker_skips(w) ==
    /\ wpc[w] = "checked"
    /\ wsaw[w]
    /\ wpc' = [wpc EXCEPT ![w] = "done"]
    /\ UNCHANGED <<mainVars, dirs, wartist, wsaw>>

\* os.makedirs(artist_dir) without exist_ok: creates the directory, or
\* raises FileExistsError when it exists by now
worker_makedirs(w) ==
    /\ wpc[w] = "checked"
    /\ ~wsaw[w]
    /\ IF WorkerDir(w) \in dirs
       THEN /\ wpc' = [wpc EXCEPT ![w] = "failed"]
            /\ UNCHANGED dirs
       ELSE /\ wpc' = [wpc EXCEPT ![w] = "done"]
            /\ dirs' = dirs \cup {WorkerDir(w)}
    /\ UNCHANGED <<mainVars, wartist, wsaw>>

NextWorkers ==
    \E w \in Workers :
        \/ worker_exists(w)
        \/ worker_skips(w)
        \/ worker_makedirs(w)

SpecWorkers == InitWorkers /\ [][NextWorkers]_vars

(* ------------- the listing methods, each called on its own ------------- *)
\* What the catalog serves for one listing: at least one page, each page
\* with its items; every page but the last carries a 'next' link.
Items == {"p", "q"}
CatalogPages == SeqsUpTo(SeqsUpTo(Items, MaxPageItems), MaxPages) \ { <<>> }
ListingMethods == {"get_playlists", "get_saved_tracks", "get_playlist_tracks"}

\* A listing method is called, authenticated or not: get_playlists and
\* get_saved_tracks from main's try block, get_playlist_tracks from the
\* try block of download_saved_playlists.
InitPages ==
    /\ pc = "listing"
    /\ authorization_code = "None"
    /\ sp \in BOOLEAN
    /\ playlists = <<>>
    /\ selected_indices = <<>>
    /\ sel_pos = 0
    /\ tracks = <<>>
    /\ i = 0
    /\ completed = 0
    /\ outcomes = <<>>
    /\ video_id = "None"
    /\ safe_artist = <<>>
    /\ safe_title = <<>>
    /\ artist_dir = <<>>
    /\ outtmpl = <<>>
    /\ dirs = { <<>>, download_dir }
    /\ files = {}
    /\ exit_status = 0
    /\ raised = NoException
    /\ written = {}
    /\ wpc = [w \in Workers |-> "idle"]
    /\ wartist = [w \in Workers |-> <<>>]
    /\ wsaw = [w \in Workers |-> FALSE]
    /\ callback_delivered = FALSE
    /\ processed = <<>>
    /\ invalid_reported = <<>>
    /\ catalog_pages \in CatalogPages
    /\ page_no = 0
    /\ listed = <<>>
    /\ ppc = "call"
    /\ pfun \in ListingMethods

\* everything a listing method does not touch
callerVars == <<pc, authVars, catalogVars, frameVars, fsVars, exitVars, workerVars>>

\* results['next'] is set: the page held is not the last one
HasNext == page_no < Len(catalog_pages)

\* A changed guard: the request is made although self.sp is unset.
listing_without_sp_Requests ==
    /\ ppc = "call"
    /\ ~sp
    /\ page_no' = 1
    /\ listed' = catalog_pages[1]
    /\ ppc' = "loop"
    /\ UNCHANGED <<callerVars, catalog_pages, pfun>>

\* if not self.sp: raise Exception("Not authenticated ..."), which the
\* callers' handlers pass on to main's `except Exception`.
listing_without_sp ==
    /\ ppc = "call"
    /\ ~sp
    /\ ppc' = "raised"
    /\ IF pfun = "get_playlist_tracks"
       THEN RaiseInTry("Exception", "listing")
       ELSE RaiseInMain("Exception", pfun)
    /\ UNCHANGED <<authVars, catalogVars, fsVars, workerVars, catalog_pages,
                   page_no, listed, pfun>>

\* get_playlists: results = self.sp.current_user_playlists(); one entry
\* is appended per item of results['items'] and the list is returned.
current_user_playlists ==
    /\ ppc = "call"
    /\ sp
    /\ pfun = "get_playlists"
    /\ page_no' = 1
    /\ listed' = catalog_pages[1]
    /\ ppc' = "returned"
    /\ UNCHANGED <<callerVars, catalog_pages, pfun>>

\* get_saved_tracks: results = self.sp.current_user_saved_tracks();
\* tracks = results['items'].
current_user_saved_tracks ==
    /\ ppc = "call"
    /\ sp
    /\ pfun = "get_saved_tracks"
    /\ page_no' = 1
    /\ listed' = catalog_pages[1]
    /\ ppc' = "loop"
    /\ UNCHANGED <<callerVars, catalog_pages, pfun>>

\* get_playlist_tracks: results = self.sp.playlist_tracks(playlist_id);
\* tracks = results['items'].
playlist_tracks ==
    /\ ppc = "call"
    /\ sp
    /\ pfun = "get_playlist_tracks"
    /\ page_no' = 1
    /\ listed' = catalog_pages[1]
    /\ ppc' = "loop"
    /\ UNCHANGED <<callerVars, catalog_pages, pfun>>

\* A changed loop body: tracks = results['items'] instead of extend.
sp_next_Assign ==
    /\ ppc = "loop"
    /\ HasNext
    /\ page_no' = page_no + 1
    /\ listed' = catalog_pages[page_no + 1]
    /\ UNCHANGED <<callerVars, catalog_pages, ppc, pfun>>

\* while results['next']: results = self.sp.next(results);
\* tracks.extend(results['items']).
sp_next ==
    /\ ppc = "loop"
    /\ HasNext
    /\ page_no' = page_no + 1
    /\ listed' = listed \o catalog_pages[page_no + 1]
    /\ UNCHANGED <<callerVars, catalog_pages, ppc, pfun>>

\* results['next'] is None: return tracks.
listing_returns ==
    /\ ppc = "loop"
    /\ ~HasNext
    /\ ppc' = "returned"
    /\ UNCHANGED <<callerVars, catalog_pages, page_no, listed, pfun>>

NextPages ==
    \/ listing_without_sp
    \/ current_user_playlists
    \/ current_user_saved_tracks
    \/ playlist_tracks
    \/ sp_next
    \/ listing_returns

SpecPages == InitPages /\ [][NextPages]_vars

(* ------------------------------- properties ---------------------------- *)
\* Names used by the properties below.
Forbidden == {"\\", "/", "*", "?", ":", "\"", "<", ">", "|"}
\* p lies strictly below directory base
Inside(p, base) == Len(p) > Len(base) /\ SubSeq(p, 1, Len(base)) = base
KeepOthers(s) == SelectSeq(s, LAMBDA c : c \notin Forbidden)
HasForbidden(s) == \E k \in 1 .. Len(s) : s[k] \in Forbidden
InBatch == pc \in {"for_track", "download"}
\* the for loop over tracks has run to its end
BatchComplete == pc = "for_track" /\ i = Len(tracks)
Successes == {k \in 1 .. Len(outcomes) : outcomes[k].status = "Success"}
\* download_track ran for the last item that advanced the task
LastFetched ==
    /\ InBatch
    /\ Len(outcomes) > 0
    /\ outcomes[Len(outcomes)].status \in {"Success", "Failed"}
TrackLevel == {"record", "search", "makedirs", "download"}

\* C1: a failure while processing one track (record, search, directory,
\* download) never ends the batch: the only exception that ends the run
\* from inside the track loop is the user's cancellation.
C1_TrackFailureNeverUnwinds ==
    (pc = "done" /\ raised.at \in TrackLevel) => raised.exc = "KeyboardInterrupt"

\* C2: when the loop of process_playlist has run to its end, exactly
\* len(tracks) outcomes were recorded, the k-th for the k-th item, and the
\* completed count equals len(tracks); on the way no item is counted twice
\* or skipped (completed, the outcomes and the loop index move together).
C2_OneOutcomePerTrack ==
    /\ InBatch =>
         /\ Len(outcomes) = completed
         /\ completed = i
         /\ i <= Len(tracks)
         /\ \A k \in 1 .. Len(outcomes) : outcomes[k].index = k - 1
    /\ BatchComplete => (Len(outcomes) = Len(tracks) /\ completed = Len(tracks))

\* a batch of two that ran to its end with a not-found and a failed item
C2_Witness ==
    /\ BatchComplete
    /\ Len(tracks) = 2
    /\ outcomes[1].status = "NotFound"
    /\ outcomes[2].status = "Failed"

\* C3: an error of the download toolchain never leaves download_track
\* (only a cancellation does); the failed item is counted as completed
\* with a failed outcome and the loop is at a later item afterwards.
C3_FetchFailureContinues ==
    /\ raised.at = "download" => raised.exc = "KeyboardInterrupt"
    /\ \A k \in 1 .. Len(outcomes) :
         outcomes[k].status = "Failed" =>
            (InBatch /\ completed >= k /\ i >= k /\ outcomes[k].index = k - 1)

\* the first item's fetch failed and the second item was fetched
C3_Witness ==
    /\ Len(outcomes) = 2
    /\ outcomes[1].status = "Failed"
    /\ outcomes[2].status = "Success"

\* C4: download_track is only ever entered with a video id, and the step
\* in which the search comes back empty records NotFound, counts the item
\* as completed, stays in the loop and creates no directory and no file.
C4_NotFoundWritesNothing ==
    /\ [](pc = "download" => video_id # "None")
    /\ [][(pc = "for_track" /\ i < Len(tracks) /\ video_id' = "None" /\ pc' # "done")
            => /\ pc' = "for_track"
               /\ i' = i + 1
               /\ completed' = completed + 1
               /\ outcomes' = Append(outcomes, [index |-> i, status |-> "NotFound"])
               /\ dirs' = dirs
               /\ files' = files
               /\ written' = written]_vars

\* the second item was not found after the first was fetched
C4_Witness ==
    /\ Len(outcomes) = 2
    /\ outcomes[1].status = "Success"
    /\ outcomes[2].status = "NotFound"
    /\ Cardinality(files) = 1

\* C5: search_youtube_music never raises to its caller (an error of the
\* index is answered with None).
C5_SearchNeverRaises == raised.at # "search"

\* C6: after download_track planned the path of a track, artist_dir names
\* the directory <download_dir>/<safe_artist> inside download_dir and the
\* output file is <download_dir>/<safe_artist>/<safe_title>.mp3.
C6_PathInsideDownloadDir ==
    LastFetched =>
       /\ Inside(Resolve(artist_dir, <<>>), download_dir)
       /\ Resolve(artist_dir, <<>>) = Append(download_dir, safe_artist)
       /\ Resolve(outtmpl, <<>>) = download_dir \o <<safe_artist, OutputName(safe_title)>>

\* C7: the sanitized artist and title hold none of the characters
\* \ / * ? : " < > |, hold every other character of the input in its
\* order, and sanitizing them again changes nothing.
C7_SanitizeStripsAndIsIdempotent ==
    LastFetched =>
       /\ ~HasForbidden(safe_artist) /\ ~HasForbidden(safe_title)
       /\ safe_artist = KeepOthers(tracks[i].artist)
       /\ safe_title = KeepOthers(tracks[i].title)
       /\ re_sub(safe_artist) = safe_artist
       /\ re_sub(safe_title) = safe_title

\* an artist with a kept and a stripped character and a stripped title
C7_Witness ==
    /\ LastFetched
    /\ tracks[i].artist = <<"|", "a">>
    /\ tracks[i].title = <<"/">>
    /\ safe_artist = <<"a">>
    /\ safe_title = <<>>

\* C8: no worker running the directory step fails, whatever the
\* interleaving, and the directory exists once a worker is through.
C8_NoDirectoryExistsError ==
    \A w \in Workers :
       /\ wpc[w] # "failed"
       /\ wpc[w] = "done" => WorkerDir(w) \in dirs

\* C9 as stated: when the loop has run to its end, the batch has written
\* as many files as it has Success outcomes.
C9_OneFilePerSuccess ==
    BatchComplete => Cardinality(written) = Cardinality(Successes)

\* C9 as amended: the files the batch has written are exactly the
\* destination paths of its Success items, one file per distinct path, so
\* at most as many as Success items.
C9_OneFilePerDistinctPath ==
    InBatch =>
       /\ written = {DestFile(tracks[k]) : k \in Successes}
       /\ Cardinality(written) <= Cardinality(Successes)
       /\ written \subseteq files

\* two fetched items with the same sanitized names left one file
C9_Witness ==
    /\ BatchComplete
    /\ Cardinality(Successes) = 2
    /\ tracks[1] # tracks[2]
    /\ Cardinality(written) = 1

\* C10: a listing that fails with an authorization error ends the run at
\* once with status 1; the loop over the selection only ever moves past a
\* playlist whose every track was processed (or past an invalid number),
\* and no track is resolved or fetched after the failure.
C10_ListingFailureEndsRun ==
    /\ [](raised.at = "listing" =>
            /\ pc = "done"
            /\ tracks = <<>> /\ outcomes = <<>>
            /\ raised.exc = "SpotifyException" => exit_status = 1)
    /\ [][(pc \in {"for_idx", "for_track"} /\ sel_pos' # sel_pos) =>
            /\ sel_pos' = sel_pos + 1
            /\ \/ pc = "for_idx" /\ ~ValidIdx(CurIdx)
               \/ pc = "for_track" /\ completed = Len(tracks)
                                   /\ Len(outcomes) = Len(tracks)]_vars
    /\ [][raised.at = "listing" => UNCHANGED <<dirs, files>>]_vars

\* the listing of the second selected playlist failed after a track of
\* the first was fetched
C10_Witness ==
    /\ pc = "done"
    /\ raised = [exc |-> "SpotifyException", at |-> "listing"]
    /\ sel_pos = 2
    /\ files # {}
    /\ exit_status = 1

\* C11: the run exits with a non-zero status only for an error that is
\* fatal to the whole run (authentication, listing): a failure that belongs
\* to one track (its record, its search, its directory, its fetch) never
\* makes the exit status non-zero.
C11_TrackFailureKeepsExitZero ==
    (pc = "done" /\ exit_status # 0) => raised.at \notin TrackLevel

\* C12: once the user's interrupt is raised the run is over with status 0:
\* nothing at all happens afterwards (no track is resolved or fetched, no
\* playlist is listed), and the step that raises it leaves every file
\* written so far in place and writes none.
C12_InterruptStopsAtOnce ==
    /\ [](raised.exc = "KeyboardInterrupt" => pc = "done" /\ exit_status = 0)
    /\ [][raised.exc = "KeyboardInterrupt" => UNCHANGED vars]_vars
    /\ [][raised'.exc = "KeyboardInterrupt" => files' = files]_vars

\* the first track was fetched, the second fetch was interrupted, and a
\* selected playlist is left unprocessed
C12_Witness ==
    /\ pc = "done"
    /\ raised = [exc |-> "KeyboardInterrupt", at |-> "download"]
    /\ files # {}
    /\ sel_pos < Len(selected_indices)
    /\ exit_status = 0

\* the concatenation of pages, in the order served
RECURSIVE Flatten(_)
Flatten(pages) ==
    IF pages = <<>> THEN <<>> ELSE Head(pages) \o Flatten(Tail(pages))

\* the valid numbers of a selection as the playlists they name, and the
\* numbers out of range as they are printed
RECURSIVE ValidOf(_)
ValidOf(sel) ==
    IF sel = <<>> THEN <<>>
    ELSE (IF ValidIdx(Head(sel)) THEN <<playlists[Head(sel) + 1]>> ELSE <<>>)
         \o ValidOf(Tail(sel))
RECURSIVE InvalidOf(_)
InvalidOf(sel) ==
    IF sel = <<>> THEN <<>>
    ELSE (IF ValidIdx(Head(sel)) THEN <<>> ELSE <<Head(sel) + 1>>)
         \o InvalidOf(Tail(sel))

\* C13: get_playlist_tracks builds the concatenation of the pages it has
\* read, in the order served (no item missing, none twice), and returns
\* only when the page it holds has no next page: what it returns is the
\* concatenation of all pages.
C13_AllPagesInOrder ==
    /\ [](pfun = "get_playlist_tracks" /\ page_no > 0 =>
            listed = Flatten(SubSeq(catalog_pages, 1, page_no)))
    /\ [](pfun = "get_playlist_tracks" /\ ppc = "returned" =>
            /\ page_no = Len(catalog_pages)
            /\ listed = Flatten(catalog_pages))
    /\ [][(pfun = "get_playlist_tracks" /\ ppc = "loop" /\ HasNext) =>
            ppc' = "loop"]_vars

\* two pages were served and both are in the list returned
C13_Witness ==
    /\ pfun = "get_playlist_tracks"
    /\ ppc = "returned"
    /\ catalog_pages = << <<"p", "q">>, <<"q">> >>
    /\ listed = <<"p", "q", "q">>

\* C14: get_playlists returns every playlist of the user, also when the
\* catalog serves them over more than one page.
C14_PlaylistsAcrossPages ==
    (pfun = "get_playlists" /\ ppc = "returned") => listed = Flatten(catalog_pages)

\* C15: a transient failure of a listing request (the network is down for
\* a moment) does not end the run: the request is tried again.
C15_TransientListingFailureRetried ==
    ~(pc = "done" /\ raised.exc = "ConnectionError")

\* C16: the completed count of a batch is 0 when the batch starts, never
\* exceeds the number of tracks, never decreases, and changes only by
\* growing by exactly one, exactly when a track's outcome is recorded.
C16_CompletedCount ==
    /\ [](InBatch => completed <= Len(tracks))
    /\ [][pc = "for_idx" /\ pc' = "for_track" => completed' = 0]_vars
    /\ [][InBatch /\ InBatch' =>
            /\ completed' \in {completed, completed + 1}
            /\ completed' = completed + 1 <=> Len(outcomes') = Len(outcomes) + 1
            /\ completed' = completed + 1 <=> i' = i + 1]_vars

\* the first of two tracks is finished, the second is being fetched
C16_Witness ==
    /\ pc = "download"
    /\ Len(tracks) = 2
    /\ completed = 1

\* C17: once the callback was delivered, authenticate_spotify leaves its
\* wait loop, also when the redirect carried no code.
C17_CallbackEndsTheWait ==
    callback_delivered ~> pc # "authenticate"

\* C18: the selection is parsed as a whole before any playlist is
\* processed: with a token that is no number nothing is processed or
\* reported.  Otherwise, at any moment, the playlists processed and the
\* numbers reported are the valid and the out-of-range entries of a
\* prefix of the selection, in its order; and when the run ends without
\* an exception, of the whole selection.
C18_SelectionParsedThenProcessed ==
    /\ (raised = [exc |-> "ValueError", at |-> "input"] =>
          processed = <<>> /\ invalid_reported = <<>> /\ files = {})
    /\ \E k \in 0 .. Len(selected_indices) :
          /\ processed = ValidOf(SubSeq(selected_indices, 1, k))
          /\ invalid_reported = InvalidOf(SubSeq(selected_indices, 1, k))
    /\ (pc = "done" /\ raised = NoException =>
          /\ processed = ValidOf(selected_indices)
          /\ invalid_reported = InvalidOf(selected_indices))

\* number 3 of two playlists was reported, number 1 processed after it
C18_Witness ==
    /\ pc = "done"
    /\ raised = NoException
    /\ Len(playlists) = 2
    /\ selected_indices = <<2, 0>>
    /\ processed = <<1>>
    /\ invalid_reported = <<3>>

\* C19: a listing method called while self.sp is unset makes no catalog
\* request and builds no list: it raises an Exception that main turns
\* into a non-zero exit status, and it changes nothing else.  A catalog
\* request is only ever made with self.sp set.
C19_UnauthenticatedListingFails ==
    /\ [](~sp => page_no = 0 /\ listed = <<>> /\ ppc \in {"call", "raised"})
    /\ [](ppc = "raised" =>
            /\ raised.exc = "Exception"
            /\ pc = "done"
            /\ exit_status # 0)
    /\ [][~sp => UNCHANGED <<authVars, catalogVars, fsVars, pfun, catalog_pages>>]_vars
    /\ [](page_no > 0 => sp)

\* get_saved_tracks was called without a session and the run ended with 1
C19_Witness ==
    /\ pfun = "get_saved_tracks"
    /\ ppc = "raised"
    /\ ~sp
    /\ exit_status = 1

====
